---- MODULE Spec2Model ----
(***************************************************************************)
(* Model of the items service: the process-wide MongoDB connection of      *)
(* src/db.js, the five request handlers of src/routes/items.js and the     *)
(* start-up / SIGTERM wiring of src/app.js.                                *)
(*                                                                         *)
(* Every `await` of the source is a point where other callbacks may run,   *)
(* so an async function is one action per segment between awaits.          *)
(***************************************************************************)
EXTENDS Integers, Sequences, FiniteSets, TLC

\* ---------------------------------------------------------------- bounds
MaxClients == 2     \* MongoClient objects constructed in one run
MaxTasks   == 2     \* callers of the exported db.js functions besides app.js
MaxReqs    == 2     \* requests in flight at the same time while serving
MaxAppReqs == 1     \* requests in flight while the process starts and stops
MaxItems   == 2     \* documents inserted in one run
MaxTime    == 1     \* last reading of the clock

\* ---------------------------------------------------------------- values
Null       == "null"          \* JS null (and a BSON null)
Undefined  == "undefined"     \* JS undefined (a field missing from the body)
\* what a call of a db.js function gives back to its caller
Returned(h)  == [kind |-> "db", handle |-> h]
NotConnected == [kind |-> "throw", handle |-> 0]   \* 'Database not connected...'
ThrownError  == [kind |-> "reject", handle |-> 0]  \* the promise rejected
Void         == [kind |-> "void", handle |-> 0]    \* the promise resolved, no value
\* the function that returned in the last step, with what it gave back
Ret(fn, v)   == [fn |-> fn, kind |-> v.kind, handle |-> v.handle]
NoRet        == [fn |-> "none", kind |-> "none", handle |-> 0]

AppTask == 0                  \* the caller that is app.js itself
Tasks   == 0..MaxTasks
Clients == 1..MaxClients
Reqs    == 1..(IF MaxReqs > MaxAppReqs THEN MaxReqs ELSE MaxAppReqs)

ObjectIdHexLen == 24
HexDigits == <<"0","1","2","3","4","5","6","7","8","9","a","b","c","d","e","f">>
LowerHex  == {HexDigits[i] : i \in 1..16}
UpperHex  == {"A", "B", "C", "D", "E", "F"}

\* a character of an id, lower-cased: hex digits are read without regard to case
ToLower(ch) ==
  CASE ch = "A" -> "a" [] ch = "B" -> "b" [] ch = "C" -> "c"
    [] ch = "D" -> "d" [] ch = "E" -> "e" [] ch = "F" -> "f"
    [] OTHER -> ch

IsHexChar(ch) == ch \in LowerHex \cup UpperHex

\* ObjectId.isValid on a path parameter (always a string): 24 hex characters
isValid(id) ==
  /\ Len(id) = ObjectIdHexLen
  /\ \A i \in 1..Len(id) : IsHexChar(id[i])

\* the value of a hex digit
HexValue(ch) == (CHOOSE i \in 1..16 : HexDigits[i] = ToLower(ch)) - 1

\* new ObjectId(id) of a valid string: the 12 bytes it spells
ObjectId(id) ==
  [i \in 1..(Len(id) \div 2) |-> 16 * HexValue(id[2 * i - 1]) + HexValue(id[2 * i])]

\* objectId.toHexString(): two lower-case hex digits a byte
toHexString(oid) ==
  [i \in 1..(2 * Len(oid)) |->
     IF i % 2 = 1 THEN HexDigits[(oid[(i + 1) \div 2] \div 16) + 1]
                  ELSE HexDigits[(oid[i \div 2] % 16) + 1]]

\* the id the driver assigns to the n-th inserted document: ids are never reused
NewObjectId(n) ==
  [i \in 1..(ObjectIdHexLen \div 2) |-> IF i = ObjectIdHexLen \div 2 THEN n % 256 ELSE 0]

\* '507f1f77bcf86cd799439011', upper-cased in part: well formed, never assigned
FakeId == <<"5","0","7","F","1","F","7","7","b","c","f","8",
            "6","c","d","7","9","9","4","3","9","0","1","1">>
\* 'invalid-id'
InvalidId == <<"i","n","v","a","l","i","d","-","i","d">>
\* 24 characters, one of them not a hex digit
NonHexId == [i \in 1..ObjectIdHexLen |-> IF i = 1 THEN "z" ELSE "0"]

\* the :id of a request: an id the service handed out, or one of the above
ReqIds   == {toHexString(NewObjectId(n)) : n \in 1..MaxItems} \cup {FakeId, InvalidId, NonHexId}
\* request bodies, as [name, description]; Undefined is a field left out
PostBodies == {<<Undefined, "d">>, <<"", "d">>, <<"a", Undefined>>, <<"a", "d">>}
PutBodies  == {<<"b", "e">>, <<Undefined, Undefined>>}

VARIABLES
  client,      \* db.js `client`: 0 for null, else the MongoClient
  db,          \* db.js `db`: 0 for null, else the Db of that MongoClient
  conn,        \* each MongoClient's underlying connection
  nclients,    \* MongoClients constructed so far
  pc,          \* where each caller of connectToDatabase / closeDatabase stands
  awaited,     \* the MongoClient whose connect() / close() a caller awaits
  ret,         \* what a db.js function returned in the last step, if one did
  appPc,       \* app.js: startServer and its SIGTERM handler
  listening,   \* app.js `server` accepts connections
  items,       \* the 'items' collection, in insertion order
  nextId,      \* documents inserted so far, plus one
  clock,       \* the last reading of the clock
  req,         \* the request each handler invocation is working on
  res,         \* the response sent in the last step, if one was, and the
               \* ObjectId its request named
  connected,   \* history: a connect completed and no close completed since
  active,      \* history: the handle that connect returned
  deleted      \* history: ids whose DELETE was answered 200

appVars == <<appPc, listening>>
vars == <<client, db, conn, nclients, pc, awaited, ret, appPc, listening,
          items, nextId, clock, req, res, connected, active, deleted>>

Idle == [op |-> "idle"]
NullDoc == [isNull |-> TRUE]  \* what findOne gives when nothing matches
NoOid == <<>>                 \* a response to a request that named no document
NoRes == [op |-> "none", status |-> 0, body |-> NullDoc, oid |-> NoOid]

Init ==
  /\ client = 0
  /\ db = 0
  /\ conn = [c \in Clients |-> "none"]
  /\ nclients = 0
  /\ pc = [t \in Tasks |-> "idle"]
  /\ awaited = [t \in Tasks |-> 0]
  /\ ret = NoRet
  /\ appPc = "init"
  /\ listening = FALSE
  /\ items = <<>>
  /\ nextId = 1
  /\ clock = 0
  /\ req = [r \in Reqs |-> Idle]
  /\ res = NoRes
  /\ connected = FALSE
  /\ active = 0
  /\ deleted = {}

\* process.exit(1) ends every callback of the process
Alive == appPc # "exited"

\* ------------------------------------------------------------ src/db.js

\* getDatabase() testing `client` where the source tests `db`
getDatabaseByClient == IF client = 0 THEN NotConnected ELSE Returned(client)

\* getDatabase(): the handle, or the error it throws
getDatabase == IF db = 0 THEN NotConnected ELSE Returned(db)

\* connectToDatabase up to its await (or its early return)
connectToDatabase(t) ==
  /\ Alive
  /\ pc[t] = "idle"
  /\ IF db # 0
       THEN /\ ret' = Ret("connectToDatabase", Returned(db))
            /\ connected' = TRUE
            /\ active' = db
            /\ UNCHANGED <<client, conn, nclients, pc, awaited>>
       ELSE /\ nclients < MaxClients
            /\ nclients' = nclients + 1
            /\ client' = nclients + 1
            /\ conn' = [conn EXCEPT ![nclients + 1] = "connecting"]
            /\ pc' = [pc EXCEPT ![t] = "connect"]
            /\ awaited' = [awaited EXCEPT ![t] = nclients + 1]
            /\ ret' = NoRet
            /\ UNCHANGED <<connected, active>>
  /\ UNCHANGED db

\* connectToDatabase after `await client.connect()` resolved
ConnectResolved(t) ==
  /\ Alive
  /\ pc[t] = "connect"
  /\ conn[awaited[t]] \in {"connecting", "closed"}
  /\ conn' = [conn EXCEPT ![awaited[t]] = IF @ = "connecting" THEN "open" ELSE @]
  /\ pc' = [pc EXCEPT ![t] = "idle"]
  /\ awaited' = [awaited EXCEPT ![t] = 0]
  /\ IF client = 0
       THEN \* client.db() of null: a TypeError, caught and thrown again
            /\ ret' = Ret("connectToDatabase", ThrownError)
            /\ UNCHANGED <<db, connected, active>>
       ELSE /\ db' = client
            /\ ret' = Ret("connectToDatabase", Returned(client))
            /\ connected' = TRUE
            /\ active' = client
  /\ UNCHANGED <<client, nclients>>

\* connectToDatabase after `await client.connect()` rejected
ConnectRejected(t) ==
  /\ Alive
  /\ pc[t] = "connect"
  /\ conn[awaited[t]] \in {"connecting", "closed"}
  /\ conn' = [conn EXCEPT ![awaited[t]] = IF @ = "connecting" THEN "failed" ELSE @]
  /\ pc' = [pc EXCEPT ![t] = "idle"]
  /\ awaited' = [awaited EXCEPT ![t] = 0]
  /\ ret' = Ret("connectToDatabase", ThrownError)
  /\ UNCHANGED <<client, db, nclients, connected, active>>

\* closeDatabase up to its await (or its return when client is null)
closeDatabase(t) ==
  /\ Alive
  /\ pc[t] = "idle"
  /\ IF client # 0
       THEN /\ conn' = [conn EXCEPT ![client] = "closed"]
            /\ pc' = [pc EXCEPT ![t] = "close"]
            /\ awaited' = [awaited EXCEPT ![t] = client]
            /\ ret' = NoRet
            /\ UNCHANGED connected
       ELSE /\ ret' = Ret("closeDatabase", Void)
            /\ connected' = FALSE
            /\ UNCHANGED <<conn, pc, awaited>>
  /\ UNCHANGED <<client, db, nclients, active>>

\* closeDatabase without its `db = null`
CloseResumedKeepsDb(t) ==
  /\ Alive
  /\ pc[t] = "close"
  /\ client' = 0
  /\ pc' = [pc EXCEPT ![t] = "idle"]
  /\ awaited' = [awaited EXCEPT ![t] = 0]
  /\ ret' = Ret("closeDatabase", Void)
  /\ connected' = FALSE
  /\ UNCHANGED <<db, conn, nclients, active>>

\* closeDatabase after `await client.close()`
CloseResumed(t) ==
  /\ Alive
  /\ pc[t] = "close"
  /\ client' = 0
  /\ db' = 0
  /\ pc' = [pc EXCEPT ![t] = "idle"]
  /\ awaited' = [awaited EXCEPT ![t] = 0]
  /\ ret' = Ret("closeDatabase", Void)
  /\ connected' = FALSE
  /\ UNCHANGED <<conn, nclients, active>>

\* a direct call of getDatabase by a caller of the module
GetDatabaseCall(t) ==
  /\ Alive
  /\ pc[t] = "idle"
  /\ ret' = Ret("getDatabase", getDatabase)
  /\ UNCHANGED <<client, db, conn, nclients, pc, awaited, connected, active>>


\* ----------------------------------------------------------- src/app.js

\* startServer up to `await connectToDatabase(MONGODB_URI)`; when the handle
\* exists already the call returns at once and app.listen follows
startServer ==
  /\ appPc = "init"
  /\ connectToDatabase(AppTask)
  /\ IF db # 0
       THEN appPc' = "serving" /\ listening' = TRUE
       ELSE appPc' = "starting" /\ UNCHANGED listening

\* startServer after the connect resolved: app.listen and process.on('SIGTERM'),
\* or the catch block when connectToDatabase threw
StartConnected ==
  /\ appPc = "starting"
  /\ ConnectResolved(AppTask)
  /\ IF client # 0
       THEN appPc' = "serving" /\ listening' = TRUE
       ELSE appPc' = "exited" /\ UNCHANGED listening

\* startServer's catch block: process.exit(1)
StartFailed ==
  /\ appPc = "starting"
  /\ ConnectRejected(AppTask)
  /\ appPc' = "exited"
  /\ UNCHANGED listening

\* the SIGTERM handler up to `await closeDatabase()`
Sigterm ==
  /\ appPc = "serving"
  /\ closeDatabase(AppTask)
  /\ IF client # 0
       THEN appPc' = "closing" /\ UNCHANGED listening
       ELSE appPc' = "stopped" /\ listening' = FALSE

\* the SIGTERM handler after the close: server.close()
SigtermResumed ==
  /\ appPc = "closing"
  /\ CloseResumed(AppTask)
  /\ appPc' = "stopped"
  /\ listening' = FALSE

\* ------------------------------------------------- the 'items' collection

\* collection.findOne({ _id }): the first document with that id, or null
findOne(coll, oid) ==
  IF \E i \in 1..Len(coll) : coll[i]._id = oid
    THEN coll[CHOOSE i \in 1..Len(coll) :
                /\ coll[i]._id = oid
                /\ \A j \in 1..(i - 1) : coll[j]._id # oid]
    ELSE NullDoc

\* collection.insertOne(doc)
insertOne(coll, doc) == Append(coll, doc)

\* a value as the driver stores it: undefined is written as null
Bson(v) == IF v = Undefined THEN Null ELSE v

\* findOneAndUpdate with { upsert: true }: a document is made when none matches
findOneAndUpdateUpsert(coll, oid, set) ==
  IF findOne(coll, oid) = NullDoc
    THEN Append(coll, [_id |-> oid, name |-> Bson(set.name),
                       description |-> Bson(set.description),
                       updatedAt |-> set.updatedAt])
    ELSE [i \in 1..Len(coll) |->
            IF coll[i]._id = oid
              THEN [name |-> Bson(set.name), description |-> Bson(set.description),
                    updatedAt |-> set.updatedAt] @@ coll[i]
              ELSE coll[i]]

\* findOneAndUpdate whose $set also names createdAt
findOneAndUpdateSetsCreatedAt(coll, oid, set) ==
  [i \in 1..Len(coll) |->
     IF coll[i]._id = oid
       THEN [name |-> Bson(set.name), description |-> Bson(set.description),
             createdAt |-> set.updatedAt, updatedAt |-> set.updatedAt] @@ coll[i]
       ELSE coll[i]]

\* collection.findOneAndUpdate({ _id }, { $set }): no upsert, so a collection
\* without the id is left as it is
findOneAndUpdate(coll, oid, set) ==
  [i \in 1..Len(coll) |->
     IF coll[i]._id = oid /\ \A j \in 1..(i - 1) : coll[j]._id # oid
       THEN [name |-> Bson(set.name), description |-> Bson(set.description),
             updatedAt |-> set.updatedAt] @@ coll[i]
       ELSE coll[i]]

\* collection.deleteOne({ _id }): the collection without the first match
deleteOne(coll, oid) ==
  IF findOne(coll, oid) = NullDoc
    THEN coll
    ELSE LET k == CHOOSE i \in 1..Len(coll) :
                    /\ coll[i]._id = oid
                    /\ \A j \in 1..(i - 1) : coll[j]._id # oid
         IN  [i \in 1..(Len(coll) - 1) |-> IF i < k THEN coll[i] ELSE coll[i + 1]]

\* a handler that reads result.acknowledged where the source reads deletedCount
deletedCountAcknowledged(coll, oid) == 1

\* result.deletedCount
deletedCount(coll, oid) == Len(coll) - Len(deleteOne(coll, oid))


\* ------------------------------------------------- src/routes/items.js

\* a test for a missing field where the source tests for a falsy one
FalsyMissingOnly(v) == v = Undefined

\* `!name`, `description || ''`: the falsy values a JSON string field can take
Falsy(v) == v \in {Undefined, Null, ""}

\* new Date(): the clock never runs backwards
Now == {t \in {clock, clock + 1} : t <= MaxTime}

ErrorBody(msg) == [error |-> msg]

\* res.status(status).json(body), which ends the handler
Respond(r, op, status, body) ==
  /\ res' = [op |-> op, status |-> status, body |-> body,
             oid |-> IF "oid" \in DOMAIN req[r] THEN req[r].oid ELSE NoOid]
  /\ req' = [req EXCEPT ![r] = Idle]

\* `await` of a store operation: the handler goes on in a later step
Await(r, state) ==
  /\ req' = [req EXCEPT ![r] = state]
  /\ res' = NoRes

\* a store operation issued on a handle: it is applied when that client's
\* connection is open, rejected when it is closed or never came up, and
\* waits while the client is still connecting
Applied(h)  == conn[h] = "open"
Rejected(h) == conn[h] \in {"closed", "failed"}

\* what no handler touches: the connection, its callers and the process
ItemsFrame ==
  /\ ret' = NoRet
  /\ UNCHANGED <<client, db, conn, nclients, pc, awaited, appPc, listening,
                 connected, active>>

\* router.post('/'): validation, getDatabase(), the document, insertOne issued
PostItem(r, name, description) ==
  /\ Alive
  /\ req[r] = Idle
  /\ IF Falsy(name)
       THEN /\ Respond(r, "POST", 400, ErrorBody("Name is required"))
            /\ UNCHANGED <<nextId, clock>>
       ELSE IF getDatabase = NotConnected
         THEN /\ Respond(r, "POST", 500, ErrorBody("Failed to create item"))
              /\ UNCHANGED <<nextId, clock>>
         ELSE /\ nextId <= MaxItems
              /\ \E now \in Now :
                   /\ clock' = now
                   /\ Await(r, [pc |-> "insertOne", handle |-> getDatabase.handle,
                                doc |-> [_id |-> NewObjectId(nextId),
                                         name |-> name,
                                         description |->
                                           IF Falsy(description) THEN "" ELSE description,
                                         createdAt |-> now]])
              /\ nextId' = nextId + 1
  /\ UNCHANGED <<items, deleted>>
  /\ ItemsFrame

\* router.post('/') after `await insertOne(...)`: findOne issued
PostInserted(r) ==
  /\ Alive
  /\ req[r] # Idle
  /\ req[r].pc = "insertOne"
  /\ \/ /\ Applied(req[r].handle)
        /\ items' = insertOne(items, req[r].doc)
        /\ Await(r, [req[r] EXCEPT !.pc = "findOne"])
     \/ /\ Rejected(req[r].handle)
        /\ Respond(r, "POST", 500, ErrorBody("Failed to create item"))
        /\ UNCHANGED items
  /\ UNCHANGED <<nextId, clock, deleted>>
  /\ ItemsFrame

\* router.post('/') after `await findOne({ _id: result.insertedId })`
PostFound(r) ==
  /\ Alive
  /\ req[r] # Idle
  /\ req[r].pc = "findOne"
  /\ \/ /\ Applied(req[r].handle)
        /\ Respond(r, "POST", 201, findOne(items, req[r].doc._id))
     \/ /\ Rejected(req[r].handle)
        /\ Respond(r, "POST", 500, ErrorBody("Failed to create item"))
  /\ UNCHANGED <<items, nextId, clock, deleted>>
  /\ ItemsFrame

\* router.get('/'): getDatabase(), find() issued
GetItems(r) ==
  /\ Alive
  /\ req[r] = Idle
  /\ IF getDatabase = NotConnected
       THEN Respond(r, "LIST", 500, ErrorBody("Failed to fetch items"))
       ELSE Await(r, [pc |-> "find", handle |-> getDatabase.handle])
  /\ UNCHANGED <<items, nextId, clock, deleted>>
  /\ ItemsFrame

\* router.get('/') after `await find().toArray()`
GetItemsFound(r) ==
  /\ Alive
  /\ req[r] # Idle
  /\ req[r].pc = "find"
  /\ \/ /\ Applied(req[r].handle)
        /\ Respond(r, "LIST", 200, [list |-> items])
     \/ /\ Rejected(req[r].handle)
        /\ Respond(r, "LIST", 500, ErrorBody("Failed to fetch items"))
  /\ UNCHANGED <<items, nextId, clock, deleted>>
  /\ ItemsFrame

\* router.get('/:id'): validation, getDatabase(), findOne issued
GetItem(r, id) ==
  /\ Alive
  /\ req[r] = Idle
  /\ IF ~isValid(id)
       THEN Respond(r, "GET", 400, ErrorBody("Invalid ID format"))
       ELSE IF getDatabase = NotConnected
         THEN Respond(r, "GET", 500, ErrorBody("Failed to fetch item"))
         ELSE Await(r, [pc |-> "getOne", handle |-> getDatabase.handle, oid |-> ObjectId(id)])
  /\ UNCHANGED <<items, nextId, clock, deleted>>
  /\ ItemsFrame

\* router.get('/:id') after `await findOne(...)`
GetItemFound(r) ==
  /\ Alive
  /\ req[r] # Idle
  /\ req[r].pc = "getOne"
  /\ \/ /\ Applied(req[r].handle)
        /\ LET item == findOne(items, req[r].oid) IN
           IF item = NullDoc
             THEN Respond(r, "GET", 404, ErrorBody("Item not found"))
             ELSE Respond(r, "GET", 200, item)
     \/ /\ Rejected(req[r].handle)
        /\ Respond(r, "GET", 500, ErrorBody("Failed to fetch item"))
  /\ UNCHANGED <<items, nextId, clock, deleted>>
  /\ ItemsFrame

\* router.put('/:id'): validation, getDatabase(), findOneAndUpdate issued
PutItem(r, id, name, description) ==
  /\ Alive
  /\ req[r] = Idle
  /\ IF ~isValid(id)
       THEN /\ Respond(r, "PUT", 400, ErrorBody("Invalid ID format"))
            /\ UNCHANGED clock
       ELSE IF getDatabase = NotConnected
         THEN /\ Respond(r, "PUT", 500, ErrorBody("Failed to update item"))
              /\ UNCHANGED clock
         ELSE \E now \in Now :
                /\ clock' = now
                /\ Await(r, [pc |-> "update", handle |-> getDatabase.handle, oid |-> ObjectId(id),
                             set |-> [name |-> name, description |-> description,
                                      updatedAt |-> now]])
  /\ UNCHANGED <<items, nextId, deleted>>
  /\ ItemsFrame

\* router.put('/:id') after `await findOneAndUpdate(...)`, returnDocument 'after'
PutItemUpdated(r) ==
  /\ Alive
  /\ req[r] # Idle
  /\ req[r].pc = "update"
  /\ \/ /\ Applied(req[r].handle)
        /\ items' = findOneAndUpdate(items, req[r].oid, req[r].set)
        /\ LET result == findOne(items', req[r].oid) IN
           IF result = NullDoc
             THEN Respond(r, "PUT", 404, ErrorBody("Item not found"))
             ELSE Respond(r, "PUT", 200, result)
     \/ /\ Rejected(req[r].handle)
        /\ Respond(r, "PUT", 500, ErrorBody("Failed to update item"))
        /\ UNCHANGED items
  /\ UNCHANGED <<nextId, clock, deleted>>
  /\ ItemsFrame

\* router.delete('/:id'): validation, getDatabase(), deleteOne issued
DeleteItem(r, id) ==
  /\ Alive
  /\ req[r] = Idle
  /\ IF ~isValid(id)
       THEN Respond(r, "DELETE", 400, ErrorBody("Invalid ID format"))
       ELSE IF getDatabase = NotConnected
         THEN Respond(r, "DELETE", 500, ErrorBody("Failed to delete item"))
         ELSE Await(r, [pc |-> "delete", handle |-> getDatabase.handle, oid |-> ObjectId(id)])
  /\ UNCHANGED <<items, nextId, clock, deleted>>
  /\ ItemsFrame

\* router.delete('/:id') after `await deleteOne(...)`
DeleteItemDone(r) ==
  /\ Alive
  /\ req[r] # Idle
  /\ req[r].pc = "delete"
  /\ \/ /\ Applied(req[r].handle)
        /\ items' = deleteOne(items, req[r].oid)
        /\ IF deletedCount(items, req[r].oid) = 0
             THEN /\ Respond(r, "DELETE", 404, ErrorBody("Item not found"))
                  /\ UNCHANGED deleted
             ELSE /\ Respond(r, "DELETE", 200, [message |-> "Item deleted successfully"])
                  /\ deleted' = deleted \cup {req[r].oid}
     \/ /\ Rejected(req[r].handle)
        /\ Respond(r, "DELETE", 500, ErrorBody("Failed to delete item"))
        /\ UNCHANGED <<items, deleted>>
  /\ UNCHANGED <<nextId, clock>>
  /\ ItemsFrame

\* ------------------------------------------------------- specifications

\* what neither db.js nor app.js touches: the collection and the requests
DbFrame ==
  /\ res' = NoRes
  /\ UNCHANGED <<items, nextId, clock, req, deleted>>

\* the callers of the exported db.js functions other than app.js
Callers == Tasks \ {AppTask}

\* the requests in flight while the process starts and stops, and while it serves
AppReqs     == 1..MaxAppReqs
ServingReqs == 1..MaxReqs

\* src/app.js run as the main module: start-up, SIGTERM, and the requests
\* the exported app handles meanwhile
Next ==
  \/ startServer /\ DbFrame
  \/ StartConnected /\ DbFrame
  \/ StartFailed /\ DbFrame
  \/ Sigterm /\ DbFrame
  \/ SigtermResumed /\ DbFrame
  \/ \E r \in AppReqs, b \in PostBodies : PostItem(r, b[1], b[2])
  \/ \E r \in AppReqs : PostInserted(r)
  \/ \E r \in AppReqs : PostFound(r)
  \/ \E r \in AppReqs : GetItems(r)
  \/ \E r \in AppReqs : GetItemsFound(r)
  \/ \E r \in AppReqs, id \in ReqIds : GetItem(r, id)
  \/ \E r \in AppReqs : GetItemFound(r)
  \/ \E r \in AppReqs, id \in ReqIds, b \in PutBodies : PutItem(r, id, b[1], b[2])
  \/ \E r \in AppReqs : PutItemUpdated(r)
  \/ \E r \in AppReqs, id \in ReqIds : DeleteItem(r, id)
  \/ \E r \in AppReqs : DeleteItemDone(r)

Spec == Init /\ [][Next]_vars

\* src/db.js under any callers of its exported functions, app.js among them
NextDb ==
  \/ \E t \in Callers : connectToDatabase(t) /\ DbFrame /\ UNCHANGED appVars
  \/ \E t \in Callers : ConnectResolved(t) /\ DbFrame /\ UNCHANGED appVars
  \/ \E t \in Callers : ConnectRejected(t) /\ DbFrame /\ UNCHANGED appVars
  \/ \E t \in Callers : closeDatabase(t) /\ DbFrame /\ UNCHANGED appVars
  \/ \E t \in Callers : CloseResumed(t) /\ DbFrame /\ UNCHANGED appVars
  \/ \E t \in Callers : GetDatabaseCall(t) /\ DbFrame /\ UNCHANGED appVars
  \/ startServer /\ DbFrame
  \/ StartConnected /\ DbFrame
  \/ StartFailed /\ DbFrame
  \/ Sigterm /\ DbFrame
  \/ SigtermResumed /\ DbFrame

SpecDb == Init /\ [][NextDb]_vars

\* the service while it serves: startServer has connected and listens
InitServing ==
  /\ client = 1
  /\ db = 1
  /\ conn = [c \in Clients |-> IF c = 1 THEN "open" ELSE "none"]
  /\ nclients = 1
  /\ pc = [t \in Tasks |-> "idle"]
  /\ awaited = [t \in Tasks |-> 0]
  /\ ret = NoRet
  /\ appPc = "serving"
  /\ listening = TRUE
  /\ items = <<>>
  /\ nextId = 1
  /\ clock = 0
  /\ req = [r \in Reqs |-> Idle]
  /\ res = NoRes
  /\ connected = TRUE
  /\ active = 1
  /\ deleted = {}

\* the requests that pass validation: one that fails it is answered in its
\* first step and leaves the collection and every other request as they were
ServingPosts == {b \in PostBodies : b[1] = "a"}
ServingIds   == {toHexString(NewObjectId(n)) : n \in 1..MaxItems} \cup {FakeId}

NextServing ==
  \/ \E r \in ServingReqs, b \in ServingPosts : PostItem(r, b[1], b[2])
  \/ \E r \in ServingReqs : PostInserted(r)
  \/ \E r \in ServingReqs : PostFound(r)
  \/ \E r \in ServingReqs : GetItems(r)
  \/ \E r \in ServingReqs : GetItemsFound(r)
  \/ \E r \in ServingReqs, id \in ServingIds : GetItem(r, id)
  \/ \E r \in ServingReqs : GetItemFound(r)
  \/ \E r \in ServingReqs, id \in ServingIds, b \in PutBodies : PutItem(r, id, b[1], b[2])
  \/ \E r \in ServingReqs : PutItemUpdated(r)
  \/ \E r \in ServingReqs, id \in ServingIds : DeleteItem(r, id)
  \/ \E r \in ServingReqs : DeleteItemDone(r)

SpecServing == InitServing /\ [][NextServing]_vars

\* ------------------------------------------------------------ properties

\* the open connections
Live == {c \in Clients : conn[c] = "open"}

\* C1: under any interleaving of connectToDatabase and closeDatabase calls
\* at most one underlying connection is open at any time.
C1_AtMostOneLive == Cardinality(Live) <= 1

\* the handle is disconnected and no connect or close is under way: before
\* any connect, after a connect that failed, after a close that completed
Disconnected == db = 0 /\ \A t \in Tasks : pc[t] = "idle"

\* C2: closeDatabase called while the handle is disconnected is a no-op: it
\* closes no client and leaves `client` and `db` as they were.
C2_CloseWhileDisconnectedIsNoOp ==
  [][\A t \in Tasks :
       (Disconnected /\ closeDatabase(t)) =>
         (UNCHANGED <<client, db, conn>> /\ pc'[t] = "idle")]_vars

\* what C3 says getDatabase gives in a state
Expected == IF connected THEN Returned(active) ELSE NotConnected

\* C3: getDatabase returns the active handle exactly when a connect has
\* completed and no close has completed since, throws the not-connected
\* error otherwise, and never changes `client` or `db`.
C3_GetDatabase ==
  /\ [](getDatabase = Expected)
  /\ [][\A t \in Tasks :
          GetDatabaseCall(t) =>
            (ret' = Ret("getDatabase", Expected) /\ UNCHANGED <<client, db>>)]_vars

\* C3: getDatabase returned the handle of a second connection, made after
\* the first one was closed.
C3_Witness ==
  /\ connected
  /\ ret = Ret("getDatabase", Returned(active))
  /\ \E c \in Clients : conn[c] = "closed"

\* the inputs validation rejects, written out
MissingNames == {Undefined, ""}
MalformedIds == {InvalidId, NonHexId}

\* the first step of a handler invocation
HandlerStart(r) ==
  \/ \E b \in PostBodies : PostItem(r, b[1], b[2])
  \/ GetItems(r)
  \/ \E id \in ReqIds : GetItem(r, id)
  \/ \E id \in ReqIds, b \in PutBodies : PutItem(r, id, b[1], b[2])
  \/ \E id \in ReqIds : DeleteItem(r, id)

C5_ValidationRejects ==
  [][\A r \in Reqs :
       /\ \A b \in PostBodies :
            (b[1] \in MissingNames /\ PostItem(r, b[1], b[2])) =>
              /\ res'.status = 400
              /\ res'.body = ErrorBody("Name is required")
              /\ req'[r] = Idle
              /\ items' = items
       /\ \A id \in MalformedIds :
            (\/ GetItem(r, id)
             \/ DeleteItem(r, id)
             \/ \E b \in PutBodies : PutItem(r, id, b[1], b[2])) =>
              /\ res'.status = 400
              /\ res'.body = ErrorBody("Invalid ID format")
              /\ req'[r] = Idle
              /\ items' = items]_vars

\* C5: an update was rejected for its id while the service was connected and
\* the collection held a document.
C5_Witness ==
  /\ db # 0
  /\ Len(items) > 0
  /\ res.op = "PUT"
  /\ res.status = 400
  /\ res.body = ErrorBody("Invalid ID format")

\* C6: every 201 response of create carries the inserted document in full,
\* with the id and the createdAt it was inserted with, its name and its
\* description, whatever other requests run between the insert and the
\* read-back.
C6_CreatedInFull ==
  [][\A r \in Reqs :
       (PostFound(r) /\ res'.status = 201) =>
         /\ res'.body # NullDoc
         /\ res'.body._id = req[r].doc._id
         /\ res'.body.createdAt = req[r].doc.createdAt
         /\ {"name", "description"} \subseteq DOMAIN res'.body]_vars

\* C7: once a DELETE of an id was answered 200 no document has that id in any
\* later state, and every later GET or DELETE of that id is answered 404.
C7_DeleteIsFinal ==
  /\ [](\A oid \in deleted : findOne(items, oid) = NullDoc)
  /\ [][\A r \in Reqs :
          ((GetItemFound(r) \/ DeleteItemDone(r)) /\ req[r].oid \in deleted) =>
            res'.status = 404]_vars

\* C7: a GET of a deleted id was answered 404 while the collection held
\* another document.
C7_Witness ==
  /\ res.op = "GET"
  /\ res.status = 404
  /\ res.oid \in deleted
  /\ Len(items) > 0

\* C8: GET, PUT and DELETE of a well-formed id that no document has are
\* answered 404 "Item not found" and leave the collection as it was.
C8_NotFound ==
  [][\A r \in Reqs :
       ((GetItemFound(r) \/ PutItemUpdated(r) \/ DeleteItemDone(r))
          /\ findOne(items, req[r].oid) = NullDoc) =>
         /\ res'.status = 404
         /\ res'.body = ErrorBody("Item not found")
         /\ items' = items]_vars

\* C8: an update of an id that no document has was answered 404 while the
\* collection held a document.
C8_Witness ==
  /\ res.op = "PUT"
  /\ res.status = 404
  /\ Len(items) > 0
  /\ findOne(items, res.oid) = NullDoc

\* C9: an update of an existing item sets name and description to the
\* values of the body (a field left out is stored as null), stamps
\* updatedAt, keeps _id and createdAt, leaves every other document as it
\* was, and answers 200 with the document as it is after the update.
C9_UpdateFrame ==
  [][\A r \in Reqs :
       (PutItemUpdated(r) /\ findOne(items, req[r].oid) # NullDoc) =>
         LET old == findOne(items, req[r].oid)
             new == findOne(items', req[r].oid)
             set == req[r].set
         IN  /\ res'.status = 200
             /\ res'.body = new
             /\ new._id = old._id
             /\ new.createdAt = old.createdAt
             /\ new.name = IF set.name = Undefined THEN Null ELSE set.name
             /\ new.description =
                  IF set.description = Undefined THEN Null ELSE set.description
             /\ "updatedAt" \in DOMAIN new
             /\ new.updatedAt = set.updatedAt
             /\ Len(items') = Len(items)
             /\ \A i \in 1..Len(items) :
                  items[i]._id # req[r].oid => items'[i] = items[i]]_vars

\* C9: an update was answered 200 with a document updated after it was
\* created, while the collection held a second document.
C9_Witness ==
  /\ res.op = "PUT"
  /\ res.status = 200
  /\ Len(items) = 2
  /\ res.body.updatedAt > res.body.createdAt
  /\ res.body.name = "b"

\* C10: on SIGTERM the server stops accepting before the store connection is
\* closed: once the handler has called closeDatabase, the server no longer
\* listens.
C10_StopsAcceptingBeforeClose ==
  appPc \in {"closing", "stopped"} => ~listening
====
